---- MODULE Spec2Model ----
(***************************************************************************)
(* Verification model of the weather service core:                         *)
(*   utils.py     rate_limit, cache_with_timeout, check_data_against_alerts,*)
(*                Thresholds, insert_fetched_data                          *)
(*   db_utils.py  cleanup_old_realtime_weather, insert_realtime_weather,   *)
(*                insert_alert_event, aggregate_daily_weather              *)
(*   dash_app_threshold.py  save_values                                    *)
(* Each component has its own specification over the shared variables.    *)
(***************************************************************************)
EXTENDS Integers, Sequences, FiniteSets, Bags, TLC

VARIABLES
    \* ---- rate_limit (utils.py:126-155)
    request_counts,   \* client_ip -> [count, timestamp]
    rlLimit,          \* the decorator's limit argument
    rlInterval,       \* the decorator's interval argument
    rlClock,          \* time(), in seconds
    rlLog,            \* one entry per call of the wrapper, oldest first
    \* ---- cache_with_timeout (utils.py:43-57)
    cache,            \* key -> [value, timestamp]
    cTimeout,         \* the decorator's timeout argument
    tzOffset,         \* local time minus UTC of the process, fixed at start
    utcClock,         \* the true time, as datetime.utcnow() reads it
    source,           \* what the wrapped function would return now
    cLast,            \* the last call of the cached function
    \* ---- Thresholds, check_data_against_alerts (utils.py:157-221)
    thresholds,       \* the attributes of the module-level Thresholds instance
    alerts,           \* the alert_events table, in insertion order
    nUpdates,         \* threshold updates submitted so far
    uLast,            \* the last threshold update submitted
    aLast,            \* the last evaluation of a reading
    \* ---- realtime_weather and daily_weather (db_utils.py:26-104)
    dbClock,          \* datetime.datetime.now(), in whole hours
    realtime,         \* the realtime_weather table, in insertion order
    daily,            \* the daily_weather table, a bag of rows
    iLast,            \* the last call of insert_fetched_data
    aggRuns,          \* aggregations run since the last ingest or midnight, at most 2
    afterFirst,       \* daily_weather as the first of those runs left it
    todayIngested,    \* the readings stored so far whose timestamp is on the current day
    xLast,            \* the last call of get_realtime_data since the last ingest
    \* ---- concurrent request handlers on the event loop (utils.py:132-152)
    tasks,            \* handler -> where its wrapper coroutine stands
    \* ---- the Thresholds object under two threads (utils.py:201-219)
    writer,           \* the thread inside update_thresholds: next assignment, arguments
    reader,           \* the thread inside get_thresholds: next attribute read, dict so far
    wholeSets         \* thread model: every set of six ranges the object was given whole

rlVars == <<request_counts, rlLimit, rlInterval, rlClock, rlLog>>
cVars == <<cache, cTimeout, tzOffset, utcClock, source, cLast>>
aVars == <<thresholds, alerts, nUpdates, uLast, aLast>>
dbVars == <<dbClock, realtime, daily, iLast, aggRuns, afterFirst, todayIngested, xLast>>

hVars == <<tasks>>

tVars == <<writer, reader, wholeSets>>

vars == <<rlVars, cVars, aVars, dbVars, hVars, tVars>>

----------------------------------------------------------------------------
(* rate_limit                                                              *)

Clients == {"10.0.0.1", "10.0.0.2"}

MaxLimit == 2
MaxInterval == 2
MaxClock == 4
MaxRequests == 4

STATUS_OK == 200
STATUS_TOO_MANY_REQUESTS == 429

EmptyMap == [x \in {} |-> 0]

\* utils.py:141, mutated: the window also restarts at exactly start + interval
WindowExpiredAtBoundary(current_time, request_info, interval) ==
    current_time - request_info.timestamp >= interval

\* utils.py:141  if current_time - request_info["timestamp"] > interval
WindowExpired(current_time, request_info, interval) ==
    current_time - request_info.timestamp > interval

\* utils.py:149, mutated: the call that reaches the limit is rejected too
OverLimitOffByOne(count, limit) == count >= limit

\* utils.py:149  if request_info["count"] > limit
OverLimit(count, limit) == count > limit

\* utils.py:136-137  a client seen for the first time gets a fresh entry
EnsureEntry(rc, client_ip, current_time) ==
    IF client_ip \in DOMAIN rc
    THEN rc
    ELSE (client_ip :> [count |-> 0, timestamp |-> current_time]) @@ rc

\* utils.py:141-146  restart the window when it has expired, then count the call
CountCall(request_info, current_time, interval) ==
    LET info == IF WindowExpired(current_time, request_info, interval)
                THEN [count |-> 0, timestamp |-> current_time]
                ELSE request_info
    IN  [info EXCEPT !.count = @ + 1]

\* utils.py:132-152, mutated: the call is counted against every client known
RateLimitWrapperCountsAll(rc, client_ip, current_time, limit, interval) ==
    LET rc1  == EnsureEntry(rc, client_ip, current_time)
        rc2  == [k \in DOMAIN rc1 |-> CountCall(rc1[k], current_time, interval)]
    IN  IF OverLimit(rc2[client_ip].count, limit)
        THEN [request_counts |-> rc2, status |-> STATUS_TOO_MANY_REQUESTS, invoked |-> 0]
        ELSE [request_counts |-> rc2, status |-> STATUS_OK, invoked |-> 1]

\* utils.py:132-152  one call of the wrapper: the new request_counts, the
\* status the caller sees and how many times the wrapped function ran
RateLimitWrapper(rc, client_ip, current_time, limit, interval) ==
    LET rc1  == EnsureEntry(rc, client_ip, current_time)
        info == CountCall(rc1[client_ip], current_time, interval)
        rc2  == [rc1 EXCEPT ![client_ip] = info]
    IN  IF OverLimit(info.count, limit)
        THEN [request_counts |-> rc2, status |-> STATUS_TOO_MANY_REQUESTS, invoked |-> 0]
        ELSE [request_counts |-> rc2, status |-> STATUS_OK, invoked |-> 1]

RlInit ==
    /\ request_counts = EmptyMap
    /\ rlLimit \in 1..MaxLimit
    /\ rlInterval \in 0..MaxInterval
    /\ rlClock = 0
    /\ rlLog = <<>>

\* a request from client_ip reaches an endpoint decorated with rate_limit
RlRequest(client_ip) ==
    /\ Len(rlLog) < MaxRequests
    /\ LET r == RateLimitWrapper(request_counts, client_ip, rlClock, rlLimit, rlInterval)
       IN  /\ request_counts' = r.request_counts
           /\ rlLog' = Append(rlLog, [client  |-> client_ip,
                                      time    |-> rlClock,
                                      status  |-> r.status,
                                      invoked |-> r.invoked,
                                      count   |-> r.request_counts[client_ip].count,
                                      start   |-> r.request_counts[client_ip].timestamp])
    /\ UNCHANGED <<rlLimit, rlInterval, rlClock>>

\* time passes
RlTick ==
    /\ rlClock < MaxClock
    /\ rlClock' = rlClock + 1
    /\ UNCHANGED <<request_counts, rlLimit, rlInterval, rlLog>>

RlNext ==
    \/ \E c \in Clients : RlRequest(c)
    \/ RlTick

\* the rate limiter at rest, for the specifications of the other components
RlIdle ==
    /\ request_counts = EmptyMap
    /\ rlLimit = 1
    /\ rlInterval = 0
    /\ rlClock = 0
    /\ rlLog = <<>>

----------------------------------------------------------------------------
(* rate_limit under concurrent requests: each request is a coroutine on    *)
(* the one event loop; it runs from its start to its first await (or to    *)
(* its raise) without any other coroutine running in between               *)

Handlers == {"h1", "h2"}

IdleTask == [pc |-> "idle"]

\* utils.py:139, mutated: the handler works on the entry as it was when its
\* request arrived, not as it is when the handler runs
ObservedAtArrival(rc_now, rc_arrival) == rc_arrival

\* utils.py:136-139  request_counts is read when the statements run; nothing
\* is carried over from before the coroutine was scheduled
Observed(rc_now, rc_arrival) == rc_now

\* a request of client_ip arrives and its handler is scheduled
HArrive(h, client_ip) ==
    /\ tasks[h].pc = "idle"
    /\ Len(rlLog) + Cardinality({g \in Handlers : tasks[g].pc = "scheduled"}) < MaxRequests
    \* the client's entry as it stands at arrival
    /\ tasks' = [tasks EXCEPT ![h] = [pc |-> "scheduled", client |-> client_ip,
                                       arrival |-> [c \in DOMAIN request_counts \cap {client_ip}
                                                        |-> request_counts[c]]]]
    /\ UNCHANGED rlVars

\* utils.py:133-152  the event loop runs the wrapper up to its raise or up to
\* `await func(...)`: lines 133-150 hold no await
HRun(h) ==
    /\ tasks[h].pc = "scheduled"
    /\ LET client_ip == tasks[h].client
           seen == Observed(request_counts, tasks[h].arrival)
           r == RateLimitWrapper(seen, client_ip, rlClock, rlLimit, rlInterval)
       IN  /\ request_counts' = (client_ip :> r.request_counts[client_ip]) @@ request_counts
           /\ rlLog' = Append(rlLog, [client  |-> client_ip,
                                      time    |-> rlClock,
                                      status  |-> r.status,
                                      invoked |-> r.invoked,
                                      count   |-> r.request_counts[client_ip].count,
                                      start   |-> r.request_counts[client_ip].timestamp])
           /\ tasks' = [tasks EXCEPT ![h] = IF r.invoked = 1
                                             THEN [pc |-> "awaiting", client |-> client_ip]
                                             ELSE IdleTask]
    /\ UNCHANGED <<rlLimit, rlInterval, rlClock>>

\* utils.py:152  the awaited endpoint function returns
HFinish(h) ==
    /\ tasks[h].pc = "awaiting"
    /\ tasks' = [tasks EXCEPT ![h] = IdleTask]
    /\ UNCHANGED rlVars

HTick == RlTick /\ UNCHANGED hVars

HInit == tasks = [h \in Handlers |-> IdleTask]

HNext ==
    \/ \E h \in Handlers, c \in Clients : HArrive(h, c)
    \/ \E h \in Handlers : HRun(h)
    \/ \E h \in Handlers : HFinish(h)
    \/ HTick

HIdle == tasks = [h \in Handlers |-> IdleTask]

----------------------------------------------------------------------------
(* cache_with_timeout                                                      *)

Keys == {"k1", "k2"}

MaxTimeout == 2
MaxOffset == 1
MaxUtcClock == 3
MaxVersion == 1

NoCall == [called |-> FALSE]

\* utils.py:50  datetime.now(): the local wall clock, UTC plus the zone offset
DatetimeNow(utc, offset) == utc + offset

\* utils.py:54  datetime.utcnow()
DatetimeUtcNow(utc) == utc

\* utils.py:53  func(*args, **kwargs): the wrapped read of the current data
Func(key, data) == [arg |-> key, data |-> data]

\* utils.py:50  key in cache and datetime.now() - cache[key]['timestamp'] < timedelta(seconds=timeout)
CacheHit(c, key, utc, offset, timeout) ==
    /\ key \in DOMAIN c
    /\ DatetimeNow(utc, offset) - c[key].timestamp < timeout

\* utils.py:48-55  one call of the wrapper: the new cache, the value returned
\* and how many times the wrapped function ran
CacheWrapper(c, key, utc, offset, timeout, data) ==
    IF CacheHit(c, key, utc, offset, timeout)
    THEN [cache |-> c, value |-> c[key].value, invoked |-> 0]
    ELSE LET result == Func(key, data)
             entry  == [value |-> result, timestamp |-> DatetimeUtcNow(utc)]
         IN  [cache   |-> (key :> entry) @@ c,
              value   |-> result,
              invoked |-> 1]

CInit ==
    /\ cache = EmptyMap
    /\ cTimeout \in 1..MaxTimeout
    /\ tzOffset \in (0 - MaxOffset)..MaxOffset
    /\ utcClock = 0
    /\ source = 0
    /\ cLast = NoCall

\* a caller reads through the cached function
CCall(key) ==
    /\ LET r == CacheWrapper(cache, key, utcClock, tzOffset, cTimeout, source)
       IN  /\ cache' = r.cache
           /\ cLast' = [called  |-> TRUE,
                        key     |-> key,
                        had     |-> key \in DOMAIN cache,
                        age     |-> IF key \in DOMAIN cache
                                    THEN utcClock - cache[key].timestamp
                                    ELSE 0,
                        stored  |-> IF key \in DOMAIN cache
                                    THEN cache[key].value
                                    ELSE Func(key, source),
                        fresh   |-> Func(key, source),
                        at      |-> utcClock,
                        value   |-> r.value,
                        invoked |-> r.invoked]
    /\ UNCHANGED <<cTimeout, tzOffset, utcClock, source>>

\* time passes
CTick ==
    /\ utcClock < MaxUtcClock
    /\ utcClock' = utcClock + 1
    /\ UNCHANGED <<cache, cTimeout, tzOffset, source, cLast>>

\* the data behind the wrapped function changes
CSourceChange ==
    /\ source < MaxVersion
    /\ source' = source + 1
    /\ UNCHANGED <<cache, cTimeout, tzOffset, utcClock, cLast>>

CNext ==
    \/ \E k \in Keys : CCall(k)
    \/ CTick
    \/ CSourceChange

CIdle ==
    /\ cache = EmptyMap
    /\ cTimeout = 1
    /\ tzOffset = 0
    /\ utcClock = 0
    /\ source = 0
    /\ cLast = NoCall

----------------------------------------------------------------------------
(* Thresholds and check_data_against_alerts                                *)

MetricKeys == {"temp", "feels_like", "pressure", "humidity", "rain", "clouds"}

MaxUpdates == 1
MaxAlerts == 1

\* the values a fetched reading carries per metric: each is a bound of one
\* submitted range and one unit outside the other
ReadingValues == {0, 101}

\* the ranges an administrator submits; the second one has lower > upper
RangeInputs == {<<1, 101>>, <<101, 0>>}

\* what a cell of the editable table can hold when Save is clicked
CellInputs == {[kind |-> "int", val |-> 101], [kind |-> "text"]}

AlertCities == {"Delhi"}

\* utils.py:221, mutated: a pressure range that contains 1013
DefaultThresholdsWidePressure ==
    [temp |-> <<0, 100>>, feels_like |-> <<0, 100>>, pressure |-> <<0, 1100>>,
     humidity |-> <<0, 100>>, rain |-> <<0, 100>>, clouds |-> <<0, 100>>]

\* utils.py:221  thresholds = Thresholds(temp=[0, 100], feels_like=[0, 100],
\*   pressure=[0, 1000], humidity=[0, 100], rain=[0, 100], clouds=[0, 100])
DefaultThresholds ==
    [temp |-> <<0, 100>>, feels_like |-> <<0, 100>>, pressure |-> <<0, 1000>>,
     humidity |-> <<0, 100>>, rain |-> <<0, 100>>, clouds |-> <<0, 100>>]

\* utils.py:201-210  Thresholds.get_thresholds: the six ranges as a dict
GetThresholds(t) ==
    [temp |-> t.temp, feels_like |-> t.feels_like, pressure |-> t.pressure,
     humidity |-> t.humidity, rain |-> t.rain, clouds |-> t.clouds]

\* utils.py:212-219  Thresholds.update_thresholds(temp, feels_like, pressure,
\* humidity, rain, clouds): the call binds all six parameters or raises
\* TypeError; the body assigns them without looking at them
UpdateThresholdsCall(t, kw) ==
    IF DOMAIN kw = MetricKeys
    THEN [thresholds |-> [temp |-> kw.temp, feels_like |-> kw.feels_like,
                          pressure |-> kw.pressure, humidity |-> kw.humidity,
                          rain |-> kw.rain, clouds |-> kw.clouds],
          raised |-> FALSE]
    ELSE [thresholds |-> t, raised |-> TRUE]

\* dash_app_threshold.py:47  int(i): a number converts, other text raises ValueError
IntOk(cell) == cell.kind = "int"
IntOf(cell) == cell.val

\* dash_app_threshold.py:18-21, 31  load_data().to_dict('records'): a row of
\* lower bounds and a row of upper bounds, one column per metric
TableRows(t) ==
    <<[k \in MetricKeys |-> [kind |-> "int", val |-> GetThresholds(t)[k][1]]],
      [k \in MetricKeys |-> [kind |-> "int", val |-> GetThresholds(t)[k][2]]]>>

\* dash_app_threshold.py:43-51  save_values: the columns of the table as lists,
\* every cell through int(), then update_thresholds(**new_data)
SaveValues(t, rows) ==
    IF \A i \in 1..Len(rows) : \A k \in DOMAIN rows[i] : IntOk(rows[i][k])
    THEN LET cols == IF Len(rows) = 0 THEN {} ELSE DOMAIN rows[1]
             new_data == [k \in cols |-> [i \in 1..Len(rows) |-> IntOf(rows[i][k])]]
         IN  UpdateThresholdsCall(t, new_data)
    ELSE [thresholds |-> t, raised |-> TRUE]

\* db_utils.py:61-70, mutated: the new row takes the place of the stored ones
InsertAlertEventReplace(table, dt, city, trigger, reason) ==
    <<[dt |-> dt, city |-> city, trigger |-> trigger, reason |-> reason]>>

\* db_utils.py:61-70  insert_alert_event: add one AlertEvent row and commit
InsertAlertEvent(table, dt, city, trigger, reason) ==
    Append(table, [dt |-> dt, city |-> city, trigger |-> trigger, reason |-> reason])

\* utils.py:160, mutated: the bounds themselves count as breaches
BreachAtBound(value, range) == value <= range[1] \/ value >= range[2]

\* utils.py:160 (and 165, 170, 175, 180, 185)
\*   weather_data[k] < thresholds[k][0] or weather_data[k] > thresholds[k][1]
Breach(value, range) == value < range[1] \/ value > range[2]

\* one of the six if-blocks of check_data_against_alerts
CheckMetric(table, weather_data, th, key, trigger, label) ==
    IF Breach(weather_data[key], th[key])
    THEN InsertAlertEvent(table, weather_data.dt, weather_data.city, trigger,
                          [found |-> label, value |-> weather_data[key],
                           threshold |-> th[key]])
    ELSE table

\* utils.py:157-187, mutated: the six blocks chained with elif
CheckDataAgainstAlertsElif(table, weather_data, th) ==
    IF Breach(weather_data.temp, th.temp)
    THEN CheckMetric(table, weather_data, th, "temp", "Temperature", "temp")
    ELSE IF Breach(weather_data.feels_like, th.feels_like)
    THEN CheckMetric(table, weather_data, th, "feels_like", "Feels Like", "feels like")
    ELSE IF Breach(weather_data.pressure, th.pressure)
    THEN CheckMetric(table, weather_data, th, "pressure", "Pressure", "pressure")
    ELSE IF Breach(weather_data.humidity, th.humidity)
    THEN CheckMetric(table, weather_data, th, "humidity", "Humidity", "humidity")
    ELSE IF Breach(weather_data.rain, th.rain)
    THEN CheckMetric(table, weather_data, th, "rain", "Rain", "rain")
    ELSE CheckMetric(table, weather_data, th, "clouds", "Clouds", "clouds")

\* utils.py:157-187  check_data_against_alerts: the alert_events table after
\* the six checks, in the order of the code
CheckDataAgainstAlerts(table, weather_data, th) ==
    LET a1 == CheckMetric(table, weather_data, th, "temp", "Temperature", "temp")
        a2 == CheckMetric(a1, weather_data, th, "feels_like", "Feels Like", "feels like")
        a3 == CheckMetric(a2, weather_data, th, "pressure", "Pressure", "pressure")
        a4 == CheckMetric(a3, weather_data, th, "humidity", "Humidity", "humidity")
        a5 == CheckMetric(a4, weather_data, th, "rain", "Rain", "rain")
    IN  CheckMetric(a5, weather_data, th, "clouds", "Clouds", "clouds")

\* the reading of the end-to-end scenario
ScenarioReading ==
    [temp |-> 105, feels_like |-> 30, pressure |-> 1013, humidity |-> 50,
     rain |-> 0, clouds |-> 10]

MetricInputs == [MetricKeys -> ReadingValues] \cup {ScenarioReading}

NoUpdate == [called |-> FALSE]
NoEvaluation == [called |-> FALSE]

AInit ==
    /\ thresholds = DefaultThresholds
    /\ alerts = <<>>
    /\ nUpdates = 0
    /\ uLast = NoUpdate
    /\ aLast = NoEvaluation

\* the six metrics with a range of two integers, lower <= upper
WellFormed(kw) ==
    /\ DOMAIN kw = MetricKeys
    /\ \A k \in MetricKeys : kw[k][1] <= kw[k][2]

\* what an update left behind: whether the ranges submitted were complete and
\* well ordered, and whether the call raised
UpdateOutcome(kw, r) ==
    [called |-> TRUE, wellFormed |-> WellFormed(kw), raised |-> r.raised]

\* an administrator calls update_thresholds with the ranges in force, one of
\* them replaced
AUpdateThresholds(key, range) ==
    /\ nUpdates < MaxUpdates
    /\ LET kw == [GetThresholds(thresholds) EXCEPT ![key] = range]
           r  == UpdateThresholdsCall(thresholds, kw)
       IN  /\ thresholds' = r.thresholds
           /\ uLast' = UpdateOutcome(kw, r)
    /\ nUpdates' = nUpdates + 1
    /\ UNCHANGED <<alerts, aLast>>

\* an administrator calls update_thresholds without one of the six metrics
AUpdatePartial(key) ==
    /\ nUpdates < MaxUpdates
    /\ LET full == GetThresholds(thresholds)
           kw   == [k \in MetricKeys \ {key} |-> full[k]]
           r    == UpdateThresholdsCall(thresholds, kw)
       IN  /\ thresholds' = r.thresholds
           /\ uLast' = UpdateOutcome(kw, r)
    /\ nUpdates' = nUpdates + 1
    /\ UNCHANGED <<alerts, aLast>>

\* the Save button: the table as displayed, one cell edited
ASaveValues(row, key, cell) ==
    /\ nUpdates < MaxUpdates
    /\ LET shown == TableRows(thresholds)
           rows  == [shown EXCEPT ![row][key] = cell]
           r     == SaveValues(thresholds, rows)
       IN  /\ thresholds' = r.thresholds
           /\ uLast' = [called |-> TRUE,
                        wellFormed |-> /\ \A k \in MetricKeys :
                                            IntOk(rows[1][k]) /\ IntOk(rows[2][k])
                                       /\ \A k \in MetricKeys :
                                            IntOf(rows[1][k]) <= IntOf(rows[2][k]),
                        raised |-> r.raised]
    /\ nUpdates' = nUpdates + 1
    /\ UNCHANGED <<alerts, aLast>>

\* a fetched reading is evaluated against the thresholds in force
AEvaluate(metrics, city) ==
    /\ Len(alerts) < MaxAlerts
    /\ LET weather_data == [temp |-> metrics.temp, feels_like |-> metrics.feels_like,
                            pressure |-> metrics.pressure, humidity |-> metrics.humidity,
                            rain |-> metrics.rain, clouds |-> metrics.clouds,
                            dt |-> 0, city |-> city]
           th == GetThresholds(thresholds)
       IN  /\ alerts' = CheckDataAgainstAlerts(alerts, weather_data, th)
           /\ aLast' = [called |-> TRUE, weather_data |-> weather_data,
                        thresholds |-> th, before |-> Len(alerts)]
    /\ UNCHANGED <<thresholds, nUpdates, uLast>>

ANext ==
    \/ \E k \in MetricKeys, r \in RangeInputs : AUpdateThresholds(k, r)
    \/ \E k \in MetricKeys : AUpdatePartial(k)
    \/ \E i \in 1..2, k \in MetricKeys, c \in CellInputs : ASaveValues(i, k, c)
    \/ \E m \in MetricInputs, c \in AlertCities : AEvaluate(m, c)

AIdle ==
    /\ thresholds = DefaultThresholds
    /\ alerts = <<>>
    /\ nUpdates = 0
    /\ uLast = NoUpdate
    /\ aLast = NoEvaluation

----------------------------------------------------------------------------
(* the Thresholds object shared by the Dash callback thread, which calls   *)
(* update_thresholds, and a thread that calls get_thresholds; neither      *)
(* method takes a lock, so the threads interleave between attribute        *)
(* assignments and attribute reads                                         *)

\* utils.py:203-218  the order in which both methods go through the attributes
AttrOrder == <<"temp", "feels_like", "pressure", "humidity", "rain", "clouds">>

\* the tables a Save can submit: every metric with the same range
WholeInputs == {[k \in MetricKeys |-> range] : range \in RangeInputs}

NotRunning == [pc |-> 0]

\* the assignments or reads of a method are done
Done(pc) == pc > Len(AttrOrder)

\* utils.py:212  update_thresholds is entered with its six arguments bound
TBeginUpdate(kw) ==
    /\ writer.pc = 0
    /\ nUpdates < MaxUpdates
    /\ writer' = [pc |-> 1, kw |-> kw]
    /\ wholeSets' = wholeSets \cup {kw}
    /\ nUpdates' = nUpdates + 1
    /\ UNCHANGED <<thresholds, alerts, uLast, aLast, reader>>

\* utils.py:214-219  one of  self.<attr> = <attr>
TAssign ==
    /\ writer.pc > 0
    /\ LET attr == AttrOrder[writer.pc]
       IN  thresholds' = [thresholds EXCEPT ![attr] = writer.kw[attr]]
    /\ writer' = IF Done(writer.pc + 1) THEN NotRunning
                 ELSE [writer EXCEPT !.pc = @ + 1]
    /\ UNCHANGED <<alerts, nUpdates, uLast, aLast, reader, wholeSets>>

\* utils.py:201  get_thresholds is entered
TBeginRead ==
    /\ reader.pc = 0 \/ Done(reader.pc)
    /\ reader' = [pc |-> 1, got |-> EmptyMap]
    /\ UNCHANGED <<aVars, writer, wholeSets>>

\* utils.py:204-209  one of  '<attr>': self.<attr>  of the dict display
TRead ==
    /\ reader.pc > 0 /\ ~Done(reader.pc)
    /\ LET attr == AttrOrder[reader.pc]
       IN  reader' = [pc |-> reader.pc + 1,
                      got |-> (attr :> thresholds[attr]) @@ reader.got]
    /\ UNCHANGED <<aVars, writer, wholeSets>>

TInit ==
    /\ writer = NotRunning
    /\ reader = NotRunning
    /\ wholeSets = {DefaultThresholds}

TNext ==
    \/ \E kw \in WholeInputs : TBeginUpdate(kw)
    \/ TAssign
    \/ TBeginRead
    \/ TRead

TIdle ==
    /\ writer = NotRunning
    /\ reader = NotRunning
    /\ wholeSets = {DefaultThresholds}

----------------------------------------------------------------------------
(* realtime_weather retention and daily aggregation                        *)

Cities == {"Delhi", "Mumbai"}
\* what a fetched reading reports: the condition that sorts first comes with
\* the higher temperature
WeatherInputs == {[main_condition |-> "Clear", temp |-> 30],
                  [main_condition |-> "Rain", temp |-> 10]}

\* the clock moves in steps of these many hours
TickHours == {12}
\* how many hours before now the provider's observation time lies
DtLags == {0, 25}
\* which step of an ingest hits a database error, if any
Faults == {"none", "cleanup", "insert"}

MaxDbClock == 36
MaxRows == 3

RETENTION_HOURS == 24
HOURS_PER_DAY == 24

\* the order of the condition strings under max()
CondRank(c) == CASE c = "Clear" -> 1 [] c = "Rain" -> 2

\* db_utils.py:27, mutated: the retention window is a quarter of a day
CleanupAfterSixHours(table, now) ==
    LET cutoff_time == now - (RETENTION_HOURS \div 4)
    IN  SelectSeq(table, LAMBDA r : ~(r.dt < cutoff_time))

\* db_utils.py:28, mutated: rows exactly 24 hours old are deleted too
CleanupAtBoundary(table, now) ==
    LET cutoff_time == now - RETENTION_HOURS
    IN  SelectSeq(table, LAMBDA r : ~(r.dt <= cutoff_time))

\* db_utils.py:27-28  the rows cleanup_old_realtime_weather leaves:
\*   delete where RealtimeWeather.dt < now - timedelta(hours=24)
CleanupOldRealtimeWeather(table, now) ==
    LET cutoff_time == now - RETENTION_HOURS
    IN  SelectSeq(table, LAMBDA r : ~(r.dt < cutoff_time))

\* db_utils.py:31-47, mutated: an error of the cleanup is swallowed and the
\* insert goes ahead
InsertDespiteCleanupError(table, now, row, fault) ==
    IF fault = "cleanup"
    THEN [realtime |-> Append(table, row), raised |-> FALSE]
    ELSE LET cleaned == CleanupOldRealtimeWeather(table, now)
         IN  IF fault = "insert"
             THEN [realtime |-> cleaned, raised |-> TRUE]
             ELSE [realtime |-> Append(cleaned, row), raised |-> FALSE]

\* db_utils.py:31-47  insert_realtime_weather: cleanup, then add and commit;
\* an error in either step raises out of the function, and a failed commit
\* stores nothing
InsertRealtimeWeather(table, now, row, fault) ==
    IF fault = "cleanup"
    THEN [realtime |-> table, raised |-> TRUE]
    ELSE LET cleaned == CleanupOldRealtimeWeather(table, now)
         IN  IF fault = "insert"
             THEN [realtime |-> cleaned, raised |-> TRUE]
             ELSE [realtime |-> Append(cleaned, row), raised |-> FALSE]

\* utils.py:104-119  insert_fetched_data: awaits insert_realtime_weather inside
\* try/except Exception, prints on failure and returns None either way
InsertFetchedData(table, now, weather_data, fault) ==
    LET r == InsertRealtimeWeather(table, now,
                 [dt |-> weather_data.dt, main_condition |-> weather_data.main_condition,
                  temp |-> weather_data.temp, city |-> weather_data.city], fault)
    IN  [realtime |-> r.realtime, returned |-> "None", raised |-> FALSE,
         printed |-> r.raised]

\* db_utils.py:115-125  get_realtime_data: every row of realtime_weather as a
\* dict without _sa_instance_state, dumped with default=str; the timestamp
\* string is kept as the hour it denotes
GetRealtimeData(table) ==
    [i \in 1..Len(table) |-> [dt |-> table[i].dt, city |-> table[i].city,
                               main_condition |-> table[i].main_condition,
                               temp |-> table[i].temp]]

\* func.date(RealtimeWeather.dt) and datetime.date.today(): the day of an hour
DateOf(dt) == dt \div HOURS_PER_DAY

\* db_utils.py:75  datetime.combine(today, time.min)
StartTime(today) == today * HOURS_PER_DAY

\* db_utils.py:76  datetime.combine(today, time.max), on the whole-hour grid
EndTime(today) == today * HOURS_PER_DAY + (HOURS_PER_DAY - 1)

RECURSIVE SumTemp(_)
SumTemp(rows) == IF rows = <<>> THEN 0 ELSE Head(rows).temp + SumTemp(Tail(rows))

MaxOf(S) == CHOOSE x \in S : \A y \in S : y <= x
MinOf(S) == CHOOSE x \in S : \A y \in S : x <= y
\* db_utils.py:84, mutated: func.min in place of func.max
MinCondition(S) == CHOOSE c \in S : \A d \in S : CondRank(c) <= CondRank(d)

\* db_utils.py:84  func.max(RealtimeWeather.main_condition)
MaxCondition(S) == CHOOSE c \in S : \A d \in S : CondRank(d) <= CondRank(c)

\* db_utils.py:78-91  the grouped query: one result row per (city, date) among
\* the readings with start_time <= dt <= end_time; avg_temp is kept as the
\* exact fraction <<sum, count>>
AggregateQuery(table, today) ==
    LET inDay  == SelectSeq(table, LAMBDA r : r.dt >= StartTime(today) /\ r.dt <= EndTime(today))
        groups == {<<inDay[i].city, DateOf(inDay[i].dt)>> : i \in 1..Len(inDay)}
    IN  {LET rows  == SelectSeq(inDay, LAMBDA r : r.city = g[1] /\ DateOf(r.dt) = g[2])
             temps == {rows[i].temp : i \in 1..Len(rows)}
         IN  [city |-> g[1], date |-> g[2],
              avg_temp |-> <<SumTemp(rows), Len(rows)>>,
              max_temp |-> MaxOf(temps),
              min_temp |-> MinOf(temps),
              dom_condition |-> MaxCondition({rows[i].main_condition : i \in 1..Len(rows)})]
         : g \in groups}

\* db_utils.py:102  session.merge(daily_weather): the row with the same primary
\* key is replaced, otherwise the row is added; the key of DailyWeather is
\* (city, date)
SessionMerge(table, row) ==
    LET same == {r \in BagToSet(table) : r.city = row.city /\ r.date = row.date}
        rest == [r \in BagToSet(table) \ same |-> table[r]]
    IN  rest (+) SetToBag({row})

\* session.add(daily_weather): the row is added whatever the table holds
SessionAdd(table, row) == table (+) SetToBag({row})

RECURSIVE AddAll(_, _)
AddAll(table, rows) ==
    IF rows = {} THEN table
    ELSE LET row == CHOOSE r \in rows : TRUE
         IN  AddAll(SessionAdd(table, row), rows \ {row})

RECURSIVE MergeAll(_, _)
\* db_utils.py:93-102  for row in result: session.merge(DailyWeather(...))
MergeAll(table, rows) ==
    IF rows = {} THEN table
    ELSE LET row == CHOOSE r \in rows : TRUE
         IN  MergeAll(SessionMerge(table, row), rows \ {row})

\* db_utils.py:72-104, mutated: session.add in place of session.merge
AggregateDailyWeatherAdd(rt, dw, now) == AddAll(dw, AggregateQuery(rt, DateOf(now)))

\* db_utils.py:72-104  aggregate_daily_weather: daily_weather after the run
AggregateDailyWeather(rt, dw, now) == MergeAll(dw, AggregateQuery(rt, DateOf(now)))

NoIngest == [called |-> FALSE]
NoExport == [called |-> FALSE]

DbInit ==
    /\ dbClock = 0
    /\ realtime = <<>>
    /\ daily = EmptyBag
    /\ iLast = NoIngest
    /\ aggRuns = 0
    /\ afterFirst = EmptyBag
    /\ todayIngested = <<>>
    /\ xLast = NoExport

\* the scheduler hands a fetched reading to insert_fetched_data
DbIngest(city, w, lag, fault) ==
    /\ Len(CleanupOldRealtimeWeather(realtime, dbClock)) < MaxRows
    /\ dbClock - lag >= 0
    /\ LET weather_data == [dt |-> dbClock - lag, main_condition |-> w.main_condition,
                            temp |-> w.temp, city |-> city]
           cutoff == dbClock - RETENTION_HOURS
           r == InsertFetchedData(realtime, dbClock, weather_data, fault)
       IN  /\ realtime' = r.realtime
           /\ iLast' = [called   |-> TRUE,
                        now      |-> dbClock,
                        row      |-> weather_data,
                        fault    |-> fault,
                        returned |-> r.returned,
                        raised   |-> r.raised,
                        older    |-> Len(SelectSeq(realtime, LAMBDA x : x.dt < cutoff)),
                        boundary |-> SelectSeq(realtime, LAMBDA x : x.dt = cutoff),
                        stored   |-> Len(realtime),
                        copies   |-> Len(SelectSeq(realtime, LAMBDA x : x = weather_data))]
           /\ todayIngested' =
                IF Len(r.realtime) > 0 /\ fault = "none"
                   /\ DateOf(weather_data.dt) = DateOf(dbClock)
                THEN Append(todayIngested, weather_data)
                ELSE todayIngested
    /\ aggRuns' = 0
    /\ afterFirst' = EmptyBag
    /\ xLast' = NoExport
    /\ UNCHANGED <<dbClock, daily>>

\* the daily job runs aggregate_daily_weather
DbAggregate ==
    /\ daily' = AggregateDailyWeather(realtime, daily, dbClock)
    /\ aggRuns' = IF aggRuns < 2 THEN aggRuns + 1 ELSE aggRuns
    /\ afterFirst' = IF aggRuns = 0 THEN daily' ELSE afterFirst
    /\ UNCHANGED <<dbClock, realtime, iLast, todayIngested, xLast>>

\* time passes; a new day starts a new series of aggregation runs
DbTick(h) ==
    /\ dbClock + h <= MaxDbClock
    /\ dbClock' = dbClock + h
    /\ aggRuns' = IF DateOf(dbClock + h) = DateOf(dbClock) THEN aggRuns ELSE 0
    /\ afterFirst' = IF DateOf(dbClock + h) = DateOf(dbClock) THEN afterFirst ELSE EmptyBag
    /\ todayIngested' = IF DateOf(dbClock + h) = DateOf(dbClock) THEN todayIngested ELSE <<>>
    /\ UNCHANGED <<realtime, daily, iLast, xLast>>

\* a reporting endpoint calls get_realtime_data
DbExport ==
    /\ xLast' = [called |-> TRUE, at |-> dbClock, rows |-> GetRealtimeData(realtime)]
    /\ UNCHANGED <<dbClock, realtime, daily, iLast, aggRuns, afterFirst, todayIngested>>

\* ingestion of fresh observations and the daily job while the database answers
DbNext ==
    \/ \E c \in Cities, w \in WeatherInputs : DbIngest(c, w, 0, "none")
    \/ DbAggregate
    \/ \E h \in TickHours : DbTick(h)

\* ingestion with database errors, and the realtime export
ExportNext ==
    \/ \E c \in Cities, w \in WeatherInputs, l \in DtLags, f \in Faults :
            DbIngest(c, w, l, f)
    \/ \E h \in TickHours : DbTick(h)
    \/ DbExport

\* ingestion alone, with database errors
IngestNext ==
    \/ \E c \in Cities, w \in WeatherInputs, l \in DtLags, f \in Faults :
            DbIngest(c, w, l, f)
    \/ \E h \in TickHours : DbTick(h)

DbIdle ==
    /\ dbClock = 0
    /\ realtime = <<>>
    /\ daily = EmptyBag
    /\ iLast = NoIngest
    /\ aggRuns = 0
    /\ afterFirst = EmptyBag
    /\ todayIngested = <<>>
    /\ xLast = NoExport

----------------------------------------------------------------------------
(* the pipeline: ingest, evaluate, aggregate and threshold updates on one  *)
(* database                                                                *)

MaxPipelineAlerts == 2

PipelineReadings == {ScenarioReading, [k \in MetricKeys |-> 0]}

PipelineWeather == [main_condition |-> "Clear", temp |-> 30]

\* a fetched reading is stored
PIngest ==
    /\ \E c \in AlertCities : DbIngest(c, PipelineWeather, 0, "none")
    /\ UNCHANGED aVars

\* a reading fetched now is evaluated against the thresholds in force
PEvaluate ==
    /\ Len(alerts) < MaxPipelineAlerts
    /\ \E metrics \in PipelineReadings, city \in AlertCities :
         LET weather_data == [temp |-> metrics.temp, feels_like |-> metrics.feels_like,
                              pressure |-> metrics.pressure, humidity |-> metrics.humidity,
                              rain |-> metrics.rain, clouds |-> metrics.clouds,
                              dt |-> dbClock, city |-> city]
             th == GetThresholds(thresholds)
         IN  /\ alerts' = CheckDataAgainstAlerts(alerts, weather_data, th)
             /\ aLast' = [called |-> TRUE, weather_data |-> weather_data,
                          thresholds |-> th, before |-> Len(alerts)]
    /\ UNCHANGED <<thresholds, nUpdates, uLast>>
    /\ UNCHANGED dbVars

PAggregate == DbAggregate /\ UNCHANGED aVars

PUpdate ==
    /\ \E range \in RangeInputs : AUpdateThresholds("temp", range)
    /\ UNCHANGED dbVars

PTick ==
    /\ \E h \in TickHours : DbTick(h)
    /\ UNCHANGED aVars

PipelineNext == PIngest \/ PEvaluate \/ PAggregate \/ PUpdate \/ PTick

----------------------------------------------------------------------------
(* specifications                                                          *)

InitRate == RlInit /\ CIdle /\ AIdle /\ DbIdle /\ HIdle /\ TIdle
NextRate == RlNext /\ UNCHANGED <<cVars, aVars, dbVars, hVars, tVars>>
SpecRate == InitRate /\ [][NextRate]_vars

InitCache == CInit /\ RlIdle /\ AIdle /\ DbIdle /\ HIdle /\ TIdle
NextCache == CNext /\ UNCHANGED <<rlVars, aVars, dbVars, hVars, tVars>>
SpecCache == InitCache /\ [][NextCache]_vars

InitAlerts == AInit /\ RlIdle /\ CIdle /\ DbIdle /\ HIdle /\ TIdle
NextAlerts == ANext /\ UNCHANGED <<rlVars, cVars, dbVars, hVars, tVars>>
SpecAlerts == InitAlerts /\ [][NextAlerts]_vars

InitDb == DbInit /\ RlIdle /\ CIdle /\ AIdle /\ HIdle /\ TIdle
NextDb == DbNext /\ UNCHANGED <<rlVars, cVars, aVars, hVars, tVars>>
SpecDb == InitDb /\ [][NextDb]_vars

NextIngest == IngestNext /\ UNCHANGED <<rlVars, cVars, aVars, hVars, tVars>>
SpecIngest == InitDb /\ [][NextIngest]_vars

NextExport == ExportNext /\ UNCHANGED <<rlVars, cVars, aVars, hVars, tVars>>
SpecExport == InitDb /\ [][NextExport]_vars

InitConc == RlInit /\ HInit /\ CIdle /\ AIdle /\ DbIdle /\ TIdle
NextConc == HNext /\ UNCHANGED <<cVars, aVars, dbVars, tVars>>
SpecConc == InitConc /\ [][NextConc]_vars

InitThreads == AInit /\ TInit /\ RlIdle /\ CIdle /\ DbIdle /\ HIdle
NextThreads == TNext /\ UNCHANGED <<rlVars, cVars, dbVars, hVars>>
SpecThreads == InitThreads /\ [][NextThreads]_vars

InitPipeline == DbInit /\ AInit /\ RlIdle /\ CIdle /\ HIdle /\ TIdle
NextPipeline == PipelineNext /\ UNCHANGED <<rlVars, cVars, hVars, tVars>>
SpecPipeline == InitPipeline /\ [][NextPipeline]_vars

----------------------------------------------------------------------------
(* rate_limit: claims                                                      *)

\* the calls of one client, oldest first
ClientCalls(c) == SelectSeq(rlLog, LAMBDA e : e.client = c)

\* C1: starting with no window, the first `limit` calls a client makes within
\* `interval` seconds of its first call are admitted and the (limit+1)th call
\* in that window is rejected; a call made once now - window start > interval
\* is admitted and leaves the counter at 1 and the window start at that call.
C1_WindowAdmitsLimit ==
    \A c \in Clients :
        LET calls == ClientCalls(c)
        IN  \A i \in 1..Len(calls) :
                /\ (calls[i].time - calls[1].time <= rlInterval) =>
                        /\ (i <= rlLimit => calls[i].status = STATUS_OK)
                        /\ (i = rlLimit + 1 => calls[i].status = STATUS_TOO_MANY_REQUESTS)
                /\ (i > 1 /\ calls[i].time - calls[i-1].start > rlInterval) =>
                        /\ calls[i].status = STATUS_OK
                        /\ calls[i].count = 1
                        /\ calls[i].start = calls[i].time

\* C1 witness: a client used up the largest limit, had the next call of the same
\* window rejected, and was admitted again with count 1 after the interval
C1_Witness ==
    \E c \in Clients :
        LET calls == ClientCalls(c)
            n     == rlLimit + 1
        IN  /\ rlLimit = MaxLimit
            /\ rlInterval > 0
            /\ Len(calls) >= n + 1
            /\ calls[n].time - calls[1].time = rlInterval
            /\ calls[n].status = STATUS_TOO_MANY_REQUESTS
            /\ calls[n + 1].time - calls[n].start > rlInterval
            /\ calls[n + 1].status = STATUS_OK
            /\ calls[n + 1].count = 1

\* C2: a call is rejected exactly when the client's count after the increment
\* exceeds the limit; a rejected call does not run the wrapped operation and
\* answers 429, every other call runs it exactly once.
C2_RejectBeforeInvoke ==
    \A i \in 1..Len(rlLog) :
        /\ (rlLog[i].count > rlLimit) =>
                (rlLog[i].status = STATUS_TOO_MANY_REQUESTS /\ rlLog[i].invoked = 0)
        /\ (rlLog[i].count <= rlLimit) =>
                (rlLog[i].status = STATUS_OK /\ rlLog[i].invoked = 1)

\* C2 witness: the log holds a rejected call and an admitted one
C2_Witness ==
    \E i, j \in 1..Len(rlLog) :
        /\ rlLog[i].status = STATUS_TOO_MANY_REQUESTS /\ rlLog[i].invoked = 0
        /\ rlLog[j].status = STATUS_OK /\ rlLog[j].invoked = 1
        /\ rlLog[i].client = rlLog[j].client

----------------------------------------------------------------------------
(* cache_with_timeout: claims                                              *)

\* C3: a call made less than `timeout` seconds after the call that populated
\* the entry returns the stored value and does not run the wrapped function,
\* whatever the clock offset of the process.
C3_HitWithinTimeout ==
    (cLast.called /\ cLast.had /\ cLast.age < cTimeout) =>
        (cLast.invoked = 0 /\ cLast.value = cLast.stored)

\* C4: the first call made when now - computed-at >= timeout runs the wrapped
\* function once, stores the new value with the current time and returns it;
\* no stale value is returned once the time-to-live has elapsed.
C4_RecomputeAfterTimeout ==
    (cLast.called /\ cLast.had /\ cLast.age >= cTimeout) =>
        /\ cLast.invoked = 1
        /\ cLast.value = cLast.fresh
        /\ cache[cLast.key] = [value |-> cLast.fresh, timestamp |-> cLast.at]

----------------------------------------------------------------------------
(* Thresholds and check_data_against_alerts: claims                        *)

\* utils.py:161-186  the metric name each if-block passes to insert_alert_event
TriggerOf(key) ==
    CASE key = "temp"       -> "Temperature"
      [] key = "feels_like" -> "Feels Like"
      [] key = "pressure"   -> "Pressure"
      [] key = "humidity"   -> "Humidity"
      [] key = "rain"       -> "Rain"
      [] key = "clouds"     -> "Clouds"

\* the events the last evaluation persisted (alert_events only grows, and only
\* by evaluations)
NewEvents == SubSeq(alerts, aLast.before + 1, Len(alerts))

\* how many of them carry the metric name of `key`
EventsFor(key) ==
    Cardinality({i \in 1..Len(NewEvents) : NewEvents[i].trigger = TriggerOf(key)})

\* C5: for every metric and every range lower <= upper, an evaluation persists
\* no alert for the metric when the value equals lower or upper and exactly
\* one when the value is lower - 1 or upper + 1.
C5_InclusiveBounds ==
    aLast.called =>
        \A k \in MetricKeys :
            LET lower == aLast.thresholds[k][1]
                upper == aLast.thresholds[k][2]
                value == aLast.weather_data[k]
            IN  lower <= upper =>
                    /\ (value = lower \/ value = upper) => EventsFor(k) = 0
                    /\ (value = lower - 1 \/ value = upper + 1) => EventsFor(k) = 1

\* C5 witness: one evaluation met a value equal to a lower bound (no event),
\* a value one below a lower bound and a value one above an upper bound (one
\* event each)
C5_Witness ==
    /\ aLast.called
    /\ \E k1, k3, k4 \in MetricKeys :
        /\ aLast.weather_data[k1] = aLast.thresholds[k1][1]
        /\ aLast.thresholds[k1][1] < aLast.thresholds[k1][2]
        /\ EventsFor(k1) = 0
        /\ aLast.weather_data[k3] = aLast.thresholds[k3][1] - 1
        /\ aLast.thresholds[k3][1] <= aLast.thresholds[k3][2]
        /\ EventsFor(k3) = 1
        /\ aLast.weather_data[k4] = aLast.thresholds[k4][2] + 1
        /\ aLast.thresholds[k4][1] <= aLast.thresholds[k4][2]
        /\ EventsFor(k4) = 1

\* the metrics of the last evaluation whose value lies outside [lower, upper]
Breached ==
    {k \in MetricKeys :
        \/ aLast.weather_data[k] < aLast.thresholds[k][1]
        \/ aLast.weather_data[k] > aLast.thresholds[k][2]}

\* C6: one evaluation persists exactly one event for each metric whose value
\* lies outside its range and none for the others: between 0 and 6 events,
\* whose metric names are those of the breached metrics, each decided by the
\* metric's own value and range.
C6_OneEventPerBreach ==
    aLast.called =>
        /\ \A k \in MetricKeys : EventsFor(k) = IF k \in Breached THEN 1 ELSE 0
        /\ Len(NewEvents) = Cardinality(Breached)
        /\ {NewEvents[i].trigger : i \in 1..Len(NewEvents)} = {TriggerOf(k) : k \in Breached}
        /\ \A i \in 1..Len(NewEvents) :
                /\ NewEvents[i].dt = aLast.weather_data.dt
                /\ NewEvents[i].city = aLast.weather_data.city

\* C6 witness: an evaluation in which three metrics are breached and three are not
C6_Witness ==
    /\ aLast.called
    /\ Breached = {"feels_like", "humidity", "clouds"}
    /\ Len(NewEvents) = 3

\* the last evaluation was of the scenario reading against the thresholds the
\* program starts with
ScenarioEvaluated ==
    /\ aLast.called
    /\ aLast.thresholds = GetThresholds(DefaultThresholds)
    /\ \A k \in MetricKeys : aLast.weather_data[k] = ScenarioReading[k]

\* C7 as claimed: the scenario reading against the default thresholds produces
\* exactly one event, for Temperature.
C7_ScenarioOnlyTemperature ==
    ScenarioEvaluated =>
        [i \in 1..Len(NewEvents) |-> NewEvents[i].trigger] = <<"Temperature">>

\* C7 as amended: the scenario reading against the default thresholds produces
\* exactly two events, Temperature (105 > 100) and Pressure (1013 > 1000), and
\* none for the other four metrics.
C7_ScenarioTemperatureAndPressure ==
    ScenarioEvaluated =>
        /\ [i \in 1..Len(NewEvents) |-> NewEvents[i].trigger] = <<"Temperature", "Pressure">>
        /\ \A k \in MetricKeys \ {"temp", "pressure"} : EventsFor(k) = 0

\* C7 witness: the scenario has been evaluated
C7_Witness == ScenarioEvaluated /\ Len(NewEvents) = 2

\* C10: the thresholds in force always hold the six metrics with
\* lower <= upper, and an update that omits a metric or submits lower > upper
\* is rejected.
C10_ThresholdsWellFormed ==
    /\ WellFormed(thresholds)
    /\ (uLast.called /\ ~uLast.wellFormed) => uLast.raised

----------------------------------------------------------------------------
(* realtime_weather and daily_weather: claims                              *)

\* the readings stored for `city` with a timestamp on day `date`
ReadingsOf(city, date) ==
    SelectSeq(realtime, LAMBDA r : r.city = city /\ DateOf(r.dt) = date)

\* how many rows of daily_weather carry (city, date)
SummariesOf(city, date) ==
    BagCardinality([r \in {x \in BagToSet(daily) : x.city = city /\ x.date = date}
                        |-> daily[r]])

\* C8: after aggregate_daily_weather has run two or more times on the same
\* day with no ingest in between, daily_weather holds exactly one row for
\* every (city, date) observed that day, and the table is as the first run
\* left it.
C8_AggregateIdempotent ==
    aggRuns >= 2 =>
        /\ daily = afterFirst
        /\ \A c \in Cities :
                ReadingsOf(c, DateOf(dbClock)) # <<>> => SummariesOf(c, DateOf(dbClock)) = 1

\* C8 witness: a second run on a day for which a city has several readings,
\* with a summary of another day or city already in the table
C8_Witness ==
    /\ aggRuns >= 2
    /\ \E c \in Cities : Len(ReadingsOf(c, DateOf(dbClock))) >= 2
    /\ BagCardinality(daily) >= 2

\* the stored readings other than the one the last ingest inserted
StoredBefore ==
    IF iLast.fault = "none" THEN SubSeq(realtime, 1, Len(realtime) - 1) ELSE realtime

\* C9: when insert_realtime_weather has run at time `now`, every reading that
\* was strictly older than now - 24 hours is gone although the new reading is
\* stored, whatever its city and timestamp, and the readings that were exactly
\* 24 hours old are still stored.
C9_RetentionOnIngest ==
    iLast.called =>
        LET cutoff == iLast.now - RETENTION_HOURS
        IN  /\ iLast.fault = "none" =>
                    /\ realtime # <<>>
                    /\ realtime[Len(realtime)] = iLast.row
                    /\ \A i \in 1..Len(StoredBefore) : StoredBefore[i].dt >= cutoff
            /\ SelectSeq(StoredBefore, LAMBDA r : r.dt = cutoff) = iLast.boundary

\* C9 witness: an ingest that purged an older reading, kept one exactly 24
\* hours old and stored a new reading that is itself older than 24 hours
C9_Witness ==
    /\ iLast.called
    /\ iLast.fault = "none"
    /\ iLast.older > 0
    /\ iLast.boundary # <<>>
    /\ iLast.row.dt < iLast.now - RETENTION_HOURS
    /\ \E i \in 1..Len(iLast.boundary) : iLast.boundary[i].city # iLast.row.city

\* how many stored readings equal `row`
CopiesOf(row) == Len(SelectSeq(realtime, LAMBDA x : x = row))

\* C11: when persisting fails (the cleanup or the insert raises),
\* insert_fetched_data gives its caller an error outcome, never the outcome of
\* a successful ingest.
C11_FailureReported ==
    (iLast.called /\ iLast.fault # "none") =>
        (iLast.raised \/ iLast.returned # "None")

\* C12: when the cleanup step of an ingest fails, that call does not insert
\* the new reading: the stored readings are those stored before the call.
C12_NoInsertAfterFailedCleanup ==
    (iLast.called /\ iLast.fault = "cleanup") =>
        /\ Len(realtime) = iLast.stored
        /\ CopiesOf(iLast.row) = iLast.copies

\* C12 witness: a failed cleanup on a table that holds readings, one of them
\* due for deletion, and none equal to the new reading
C12_Witness ==
    /\ iLast.called
    /\ iLast.fault = "cleanup"
    /\ iLast.older > 0
    /\ iLast.copies = 0
    /\ CopiesOf(iLast.row) = 0

\* C14: whenever get_realtime_data is called, whatever was ingested before and
\* however long ago, no returned reading is older than the 24 hours before the
\* call.
C14_ExportOnlyNonExpired ==
    xLast.called =>
        \A i \in 1..Len(xLast.rows) : xLast.rows[i].dt >= xLast.at - RETENTION_HOURS

\* C13: the stored alert events are append-only: whatever the step (ingest with
\* its retention cleanup, evaluation, aggregation, threshold update, time
\* passing), every event stored before it is stored after it, at the same
\* place and with the same fields.
C13_AlertsAppendOnly ==
    [][/\ Len(alerts') >= Len(alerts)
       /\ \A i \in 1..Len(alerts) : alerts'[i] = alerts[i]]_vars

\* C13 witness: an event raised at hour 0 is still stored, first and unchanged,
\* after later events were appended, the thresholds were updated, the day was
\* aggregated and an ingest purged an expired reading
C13_Witness ==
    /\ Len(alerts) >= 2
    /\ alerts[1].dt = 0
    /\ alerts[Len(alerts)].dt > 0
    /\ uLast.called /\ thresholds # DefaultThresholds
    /\ aggRuns > 0
    /\ iLast.called /\ iLast.older > 0

\* the calls of client c counted in its current window
WindowCalls(c) ==
    SelectSeq(rlLog, LAMBDA e : e.client = c /\ e.start = request_counts[c].timestamp)

\* C15: with handlers of the same client running concurrently, no increment is
\* lost: the stored count of a client is the number of its calls in the current
\* window, and at most `limit` of those calls were admitted.
C15_NoLostIncrement ==
    \A c \in DOMAIN request_counts :
        /\ request_counts[c].count = Len(WindowCalls(c))
        /\ Len(SelectSeq(WindowCalls(c), LAMBDA e : e.status = STATUS_OK)) <= rlLimit

\* C15 witness: two requests of one client arrived before either ran; the first
\* was admitted and is still awaiting its endpoint when the second is rejected
C15_Witness ==
    \E c \in Clients :
        /\ c \in DOMAIN request_counts
        /\ request_counts[c].count = rlLimit + 1
        /\ tasks["h1"] = [pc |-> "awaiting", client |-> c]
        /\ tasks["h2"].pc = "idle"
        /\ Len(WindowCalls(c)) = rlLimit + 1
        /\ WindowCalls(c)[rlLimit + 1].status = STATUS_TOO_MANY_REQUESTS
        /\ WindowCalls(c)[rlLimit + 1].time = WindowCalls(c)[1].time

\* C16: the threshold set is replaced atomically: a get_thresholds that runs
\* while update_thresholds runs returns all six ranges of the set before the
\* update or all six ranges of the set after it, never some of each.
C16_ReadsOneSet ==
    Done(reader.pc) => reader.got \in wholeSets

\* the admitted calls of one client, oldest first
Admitted(c) == SelectSeq(ClientCalls(c), LAMBDA e : e.status = STATUS_OK)

\* C17 (as stated): the window is fixed and restarts only when
\* now - start > interval, so `limit` admissions before a restart and `limit`
\* admissions after it are 2*limit admissions of one client inside a time span
\* shorter than `interval`.
C17_DoubleBurstInsideInterval ==
    \A c \in Clients :
        LET adm == Admitted(c)
        IN  \A i \in 1..Len(adm) :
                LET j == i + 2 * rlLimit - 1
                IN  j <= Len(adm) => adm[j].time - adm[i].time < rlInterval

\* C17 (amended): the window start of a client changes exactly on a call with
\* now - start > interval (a call at start + interval keeps the window), and it
\* becomes the time of that call; `limit` admissions of one window can be
\* followed by `limit` admissions of the next, but any 2*limit admissions of
\* one client span more than `interval`, because the first admission of a
\* window is the call that started it.
C17_FixedWindow ==
    \A c \in Clients :
        LET calls == ClientCalls(c)
            adm   == Admitted(c)
        IN  /\ \A i \in 2..Len(calls) :
                    IF calls[i].time - calls[i-1].start > rlInterval
                    THEN calls[i].start = calls[i].time /\ calls[i].start # calls[i-1].start
                    ELSE calls[i].start = calls[i-1].start
            /\ \A i \in 1..Len(adm) :
                    LET j == i + 2 * rlLimit - 1
                    IN  j <= Len(adm) => adm[j].time - adm[i].time > rlInterval

\* C17 witness: limit 2, interval 2: two admissions in one window, the second
\* at start + interval (no restart), two more in the next window one second
\* later; the last 2*limit - 1 admissions lie within one second
C17_Witness ==
    \E c \in Clients :
        LET adm == Admitted(c)
        IN  /\ rlLimit = 2 /\ rlInterval = 2
            /\ Len(adm) = 4
            /\ adm[2].time = adm[1].start + rlInterval
            /\ adm[2].start = adm[1].start
            /\ adm[3].start = adm[3].time
            /\ adm[4].start = adm[3].start
            /\ adm[4].time - adm[2].time < rlInterval
            /\ adm[4].time - adm[1].time = rlInterval + 1

\* C20: a rejected call is counted like any other: once a call of a client was
\* rejected, every later call of that client made while now - start <= interval
\* is rejected too and raises the count by one; and a call of one client leaves
\* the count and the window start of every other client as that client's own
\* last call left them.
C20_RejectedCallsCount ==
    /\ \A c \in Clients :
            LET calls == ClientCalls(c)
            IN  \A i \in 1..Len(calls) : \A j \in (i+1)..Len(calls) :
                    (/\ calls[i].status = STATUS_TOO_MANY_REQUESTS
                     /\ calls[j].time - calls[i].start <= rlInterval) =>
                        /\ calls[j].status = STATUS_TOO_MANY_REQUESTS
                        /\ calls[j].start = calls[i].start
                        /\ calls[j].count = calls[i].count + (j - i)
    /\ \A c \in Clients :
            LET calls == ClientCalls(c)
            IN  IF Len(calls) = 0
                THEN c \notin DOMAIN request_counts
                ELSE /\ c \in DOMAIN request_counts
                     /\ request_counts[c].count = calls[Len(calls)].count
                     /\ request_counts[c].timestamp = calls[Len(calls)].start

\* C20 witness: a client is rejected, another client then makes a call that is
\* admitted in a window of its own, and the first client is rejected again
\* with the count two above the limit
C20_Witness ==
    /\ Len(rlLog) = 4
    /\ rlLog[1].client = rlLog[2].client
    /\ rlLog[3].client # rlLog[1].client
    /\ rlLog[4].client = rlLog[1].client
    /\ rlLog[2].status = STATUS_TOO_MANY_REQUESTS
    /\ rlLog[3].status = STATUS_OK
    /\ rlLog[3].start > rlLog[1].start
    /\ rlLog[4].status = STATUS_TOO_MANY_REQUESTS
    /\ rlLog[4].time > rlLog[2].time
    /\ rlLog[4].count = rlLimit + 2
    /\ request_counts[rlLog[3].client].count = 1

\* the readings stored now with a timestamp on the current day
StoredToday == SelectSeq(realtime, LAMBDA r : DateOf(r.dt) = DateOf(dbClock))

\* the rows of daily_weather for (city, date)
SummaryRows(city, date) == {x \in BagToSet(daily) : x.city = city /\ x.date = date}

\* C18: whatever ingests (each with its 24-hour cleanup) ran, every reading
\* ingested so far with a timestamp on the current day is still stored, so an
\* aggregation run on that day computes each city's summary over all of them.
C18_TodayKeptForAggregation ==
    /\ StoredToday = todayIngested
    /\ aggRuns > 0 =>
            \A c \in Cities :
                LET mine == SelectSeq(todayIngested, LAMBDA r : r.city = c)
                IN  Len(mine) > 0 =>
                        \A s \in SummaryRows(c, DateOf(dbClock)) :
                            s.avg_temp = <<SumTemp(mine), Len(mine)>>

\* C18 witness: on the second day an ingest purged a reading of the first day
\* while a reading of the second day, twelve hours old, stayed; the aggregation
\* then covered both readings of the second day
C18_Witness ==
    /\ aggRuns > 0
    /\ iLast.called /\ iLast.older > 0
    /\ Len(todayIngested) = 2
    /\ todayIngested[1].dt < iLast.now
    /\ todayIngested[2].city = todayIngested[1].city
    /\ \E s \in SummaryRows(todayIngested[1].city, DateOf(dbClock)) : s.avg_temp[2] = 2

\* C19: after an aggregation run, every city with a reading on the current day
\* has one summary for the day whose maximum and minimum temperature are the
\* greatest and least temperature among that city's readings of the day and
\* whose dominant condition is the greatest condition string among them; a
\* city with no reading on the day has no summary for it.
C19_SummaryOfCityDay ==
    aggRuns > 0 =>
        \A c \in Cities :
            LET rows == ReadingsOf(c, DateOf(dbClock))
                idx  == 1..Len(rows)
                sums == SummaryRows(c, DateOf(dbClock))
            IN  IF Len(rows) = 0
                THEN sums = {}
                ELSE /\ SummariesOf(c, DateOf(dbClock)) = 1
                     /\ \A s \in sums :
                            /\ \E i \in idx : rows[i].temp = s.max_temp
                            /\ \A i \in idx : rows[i].temp <= s.max_temp
                            /\ \E i \in idx : rows[i].temp = s.min_temp
                            /\ \A i \in idx : rows[i].temp >= s.min_temp
                            /\ \E i \in idx : rows[i].main_condition = s.dom_condition
                            /\ \A i \in idx : CondRank(rows[i].main_condition)
                                                    <= CondRank(s.dom_condition)

\* C19 witness: a city has two "Clear" readings and one "Rain" reading on the
\* day; its summary says "Rain", with the extremes of the three temperatures,
\* the other city has no summary for the day, and a summary of an earlier day
\* is in the table
C19_Witness ==
    /\ aggRuns > 0
    /\ \E c \in Cities :
            LET rows == ReadingsOf(c, DateOf(dbClock))
            IN  /\ Len(rows) = 3
                /\ Len(SelectSeq(rows, LAMBDA r : r.main_condition = "Clear")) = 2
                /\ Len(SelectSeq(rows, LAMBDA r : r.main_condition = "Rain")) = 1
                /\ \E s \in SummaryRows(c, DateOf(dbClock)) :
                        s.dom_condition = "Rain" /\ s.max_temp = 30 /\ s.min_temp = 10
                /\ \A d \in Cities \ {c} : SummaryRows(d, DateOf(dbClock)) = {}
    /\ \E x \in BagToSet(daily) : x.date < DateOf(dbClock)

====
